---- MODULE Spec2Model ----
(***************************************************************************)
(* Model of scripts/geocode.py: the batch that reads data/apartments.csv,  *)
(* fills in missing coordinates through Nominatim and a JSON cache, and    *)
(* writes data/apartments.json and data/.geocode_cache.json.               *)
(*                                                                         *)
(* Text is a sequence of one-character strings, so that strip(), lower(),  *)
(* split() and the "in" substring test are computed, not assumed.          *)
(* Numbers read from text are fixed-point integers in thousandths          *)
(* (43.625 is 43625).  An optional value (Python None or a value) is the   *)
(* empty tuple or a one-element tuple.                                     *)
(***************************************************************************)
EXTENDS Integers, Sequences, FiniteSets, TLC

VARIABLES
    csvExists,    \* data/apartments.csv exists (its rows are read by Start)
    cacheFile,    \* data/.geocode_cache.json: [state, data]
    jsonFile,     \* data/apartments.json: <<>> when not written, else <<records>>
    env,          \* the environment of the current process (GEO_* variables)
    pc,           \* position of the current process in main()
    rows,         \* main: rows
    cache,        \* main: cache
    out,          \* main: out
    missing_geo,  \* main: missing_geo
    calls,        \* the lookups the geocoding service received from this process
    stores,       \* the assignments cache[key] = ... this process made
    reported,     \* the count printed by the last line of main, <<>> before
    laterRun,     \* FALSE in the first process, TRUE in one started after it
    prevEnv       \* the globals of the process before this one, where the
                  \* specification records them (SpecWide), else <<>>

vars == <<csvExists, cacheFile, jsonFile, env, pc, rows, cache, out, missing_geo,
          calls, stores, reported, laterRun, prevEnv>>

-----------------------------------------------------------------------------
(* Bounds of the model *)

\* The longest input table read in one run.
MaxRows == 2

-----------------------------------------------------------------------------
(* Python values *)

None == <<>>

Some(x) == <<x>>

Val(o) == o[1]

-----------------------------------------------------------------------------
(* Text *)

\* the lower-case letter of each upper-case letter
Lowered ==
    [c \in {"A","B","C","D","E","F","G","H","I","J","K","L","M",
            "N","O","P","Q","R","S","T","U","V","W","X","Y","Z"} |->
        CASE c = "A" -> "a" [] c = "B" -> "b" [] c = "C" -> "c" [] c = "D" -> "d"
          [] c = "E" -> "e" [] c = "F" -> "f" [] c = "G" -> "g" [] c = "H" -> "h"
          [] c = "I" -> "i" [] c = "J" -> "j" [] c = "K" -> "k" [] c = "L" -> "l"
          [] c = "M" -> "m" [] c = "N" -> "n" [] c = "O" -> "o" [] c = "P" -> "p"
          [] c = "Q" -> "q" [] c = "R" -> "r" [] c = "S" -> "s" [] c = "T" -> "t"
          [] c = "U" -> "u" [] c = "V" -> "v" [] c = "W" -> "w" [] c = "X" -> "x"
          [] c = "Y" -> "y" [] c = "Z" -> "z"]

\* str.lower() on one character
LowerChar(c) == IF c \in DOMAIN Lowered THEN Lowered[c] ELSE c

\* str.lower()
Lower(s) == [k \in 1..Len(s) |-> LowerChar(s[k])]

\* the characters str.strip() removes (those the model's texts use)
IsSpace(c) == c \in {" ", "\t"}

\* str.strip(): what lies between the first and the last character that is
\* not a blank
Strip(s) ==
    LET keep == {k \in 1..Len(s) : ~IsSpace(s[k])}
    IN  IF keep = {} THEN <<>>
        ELSE SubSeq(s, CHOOSE k \in keep : \A h \in keep : k <= h,
                       CHOOSE k \in keep : \A h \in keep : h <= k)

\* sub in s
Contains(s, sub) ==
    \E k \in 0..(Len(s) - Len(sub)) : SubSeq(s, k + 1, k + Len(sub)) = sub

\* s.replace(a, b) for single characters
Replace(s, a, b) == [k \in 1..Len(s) |-> IF s[k] = a THEN b ELSE s[k]]

\* the pieces of s between the positions pos, in order
SplitAt(s, pos) ==
    [j \in 1..(Cardinality(pos) + 1) |->
        SubSeq(s,
               (IF j = 1 THEN 0
                ELSE CHOOSE k \in pos : Cardinality({h \in pos : h < k}) = j - 2) + 1,
               (IF j = Cardinality(pos) + 1 THEN Len(s) + 1
                ELSE CHOOSE k \in pos : Cardinality({h \in pos : h < k}) = j - 1) - 1)]

\* s.split(sep) for a single-character separator
Split(s, sep) == SplitAt(s, {k \in 1..Len(s) : s[k] = sep})

Digits == <<"0","1","2","3","4","5","6","7","8","9">>

IsDigit(c) == \E k \in 1..10 : Digits[k] = c

DigitVal(c) == (CHOOSE k \in 1..10 : Digits[k] = c) - 1

\* the value of a string of digits
DigitsVal(s) ==
    LET v[k \in 0..Len(s)] ==
            IF k = 0 THEN 0 ELSE 10 * v[k - 1] + DigitVal(s[k])
    IN  v[Len(s)]

\* the fraction digits as thousandths ("5" is 500, "625" is 625)
FracVal(s) == DigitsVal(SubSeq(s \o <<"0","0","0">>, 1, 3))

AllDigits(s) == \A k \in 1..Len(s) : IsDigit(s[k])

\* the number written as integer part p[1] and, if any, fraction p[2]
ParseParts(neg, p) ==
    IF /\ Len(p) \in {1, 2}
       /\ AllDigits(p[1])
       /\ Len(p) = 2 => (AllDigits(p[2]) /\ Len(p[2]) <= 3)
       /\ Len(p[1]) + (IF Len(p) = 2 THEN Len(p[2]) ELSE 0) > 0
    THEN Some((IF neg THEN -1 ELSE 1) *
              (1000 * DigitsVal(p[1]) + (IF Len(p) = 2 THEN FracVal(p[2]) ELSE 0)))
    ELSE None

ParseSigned(t) ==
    ParseParts(t # <<>> /\ Head(t) = "-",
               Split(IF t # <<>> /\ Head(t) \in {"-", "+"} THEN Tail(t) ELSE t, "."))

\* float(text): None stands for ValueError.  Covers optional sign, digits and
\* one decimal point with at most three decimals; exponents, inf and nan are
\* not among the texts of the model.
ParseFloat(text) == ParseSigned(Strip(text))

-----------------------------------------------------------------------------
(* Configuration (geocode.py lines 28-50) *)

\* GEO_CITY_HINT default: "Montpellier, France"
T_CityHint == <<"M","o","n","t","p","e","l","l","i","e","r",","," ","F","r","a","n","c","e">>

\* GEO_VIEWBOX default: "3.75,43.72,4.05,43.53"
T_Viewbox == <<"3",".","7","5",",","4","3",".","7","2",",","4",".","0","5",",","4","3",".","5","3">>

\* GEO_COUNTRY_CODES default: "fr"
T_Fr == <<"f","r">>

\* GEO_MAX_KM default, in km
MAX_KM_Default == 30

\* the environment with every GEO_* variable unset
EnvDefault ==
    [CITY_HINT |-> T_CityHint, VIEWBOX_STR |-> T_Viewbox,
     COUNTRY_CODES |-> T_Fr, MAX_KM |-> MAX_KM_Default]

\* GEO_MAX_KM=0: the distance check is switched off (line 105, MAX_KM > 0)
EnvNoMaxKm == [EnvDefault EXCEPT !.MAX_KM = 0]

\* GEO_VIEWBOX="2.2,48.9,2.5,48.8": a box around Paris
T_ViewboxParis == <<"2",".","2",",","4","8",".","9",",","2",".","5",",","4","8",".","8">>

\* GEO_VIEWBOX="3.75;43.72": not four comma-separated numbers
T_ViewboxBad == <<"3",".","7","5",";","4","3",".","7","2">>

\* GEO_COUNTRY_CODES="es"
T_Es == <<"e","s">>

EnvParis == [EnvDefault EXCEPT !.VIEWBOX_STR = T_ViewboxParis]

EnvSpain == [EnvDefault EXCEPT !.COUNTRY_CODES = T_Es]

EnvBadBox == [EnvDefault EXCEPT !.VIEWBOX_STR = T_ViewboxBad]

\* [float(x.strip()) for x in s.split(",")], None for an element that raises
Floats(parts) == [k \in 1..Len(parts) |-> ParseFloat(Strip(parts[k]))]

\* lines 43-48: left, top, right, bottom = vals, or the except branch
BoxOf(s, vals) ==
    IF Len(vals) = 4 /\ \A k \in 1..4 : vals[k] # None
    THEN [viewbox    |-> Some(s),
          center_lat |-> Some((Val(vals[2]) + Val(vals[4])) \div 2),
          center_lon |-> Some((Val(vals[1]) + Val(vals[3])) \div 2)]
    ELSE [viewbox |-> None, center_lat |-> None, center_lon |-> None]

\* parse_viewbox: the string kept as it is and the centre of the box, or
\* three None when the text is not four comma-separated numbers.
\* The centre is exact whenever the sums are even thousandths.
parse_viewbox(s) == BoxOf(s, Floats(Split(s, ",")))

WithBox(environ, box) ==
    [CITY_HINT     |-> environ.CITY_HINT,
     VIEWBOX_STR   |-> environ.VIEWBOX_STR,
     COUNTRY_CODES |-> environ.COUNTRY_CODES,
     MAX_KM        |-> environ.MAX_KM,
     VIEWBOX_PARAM |-> box.viewbox,
     CENTER_LAT    |-> box.center_lat,
     CENTER_LON    |-> box.center_lon]

\* the module globals after import (lines 29-50), for the environment environ
Globals(environ) == WithBox(environ, parse_viewbox(environ.VIEWBOX_STR))

-----------------------------------------------------------------------------
(* Places the geocoding service may answer with, in thousandths of a degree *)

\* 43.600 N 3.900 E, in Montpellier
LocNear == [latitude |-> 43600, longitude |-> 3900]

\* 48.900 N 2.400 E, near Paris
LocFar == [latitude |-> 48900, longitude |-> 2400]

\* haversine_km, tabulated on the points of the model and rounded up to a
\* whole km (for a whole number of km m, d > m exactly when the rounded-up
\* distance exceeds m).  The formula of lines 53-58 gives
\*   (43.625, 3.9) -> (43.6, 3.9):   2.78 km
\*   (43.625, 3.9) -> (48.9, 2.4): 597.75 km
\*   (48.85, 2.35) -> (43.6, 3.9): 595.79 km
\*   (48.85, 2.35) -> (48.9, 2.4):   6.65 km
haversine_km(lat1, lon1, lat2, lon2) ==
    CASE <<lat1, lon1, lat2, lon2>> = <<43625, 3900, 43600, 3900>> -> 3
      [] <<lat1, lon1, lat2, lon2>> = <<43625, 3900, 48900, 2400>> -> 598
      [] <<lat1, lon1, lat2, lon2>> = <<48850, 2350, 43600, 3900>> -> 596
      [] <<lat1, lon1, lat2, lon2>> = <<48850, 2350, 48900, 2400>> -> 7

-----------------------------------------------------------------------------
(* Helpers of geocode.py *)

\* norm_key (lines 60-63); the text is never None where main calls it
norm_key(s) == Lower(Strip(s))

\* to_float (lines 73-80)
to_float(v) ==
    IF v = <<>> THEN None ELSE ParseFloat(Strip(Replace(v, ",", ".")))

\* the configured box is passed even when it is not valid
LookupParams_Bounded(e) ==
    [country_codes |-> e.COUNTRY_CODES,
     viewbox       |-> Some(e.VIEWBOX_STR),
     bounded       |-> TRUE]

\* the keyword arguments geocode_query passes to the service (lines 94-102)
LookupParams(e) ==
    [country_codes |-> e.COUNTRY_CODES,
     viewbox       |-> IF e.VIEWBOX_PARAM # None /\ Val(e.VIEWBOX_PARAM) # <<>>
                       THEN e.VIEWBOX_PARAM ELSE None,
     bounded       |-> e.VIEWBOX_PARAM # None /\ Val(e.VIEWBOX_PARAM) # <<>>]

\* geocode_query after the service answered loc (lines 104-110): the answer,
\* or None when it lies further than MAX_KM from the centre
geocode_query(e, loc) ==
    IF /\ loc # None
       /\ e.CENTER_LAT # None
       /\ e.CENTER_LON # None
       /\ e.MAX_KM > 0
       /\ haversine_km(Val(e.CENTER_LAT), Val(e.CENTER_LON),
                       Val(loc).latitude, Val(loc).longitude) > e.MAX_KM
    THEN None
    ELSE loc

\* str() of an optional text inside an f-string
FStr(o) == IF o = None THEN <<"N","o","n","e">> ELSE Val(o)

\* a key made of the query text alone
CacheKey_QueryOnly(e, query) == norm_key(query)

\* line 152: key = norm_key(f"{query}|{VIEWBOX_PARAM}|{COUNTRY_CODES}")
CacheKey(e, query) ==
    norm_key(query \o <<"|">> \o FStr(e.VIEWBOX_PARAM) \o <<"|">> \o e.COUNTRY_CODES)

\* dict.get(key): None for a missing key
CacheGet(c, key) == IF key \in DOMAIN c THEN c[key] ELSE None

\* c[key] = value
CachePut(c, key, value) ==
    [k \in DOMAIN c \cup {key} |-> IF k = key THEN value ELSE c[k]]

\* {}
EmptyCache == [k \in {} |-> None]

-----------------------------------------------------------------------------
(* Inputs: the cells of data/apartments.csv and the answers of the service *)

\* "Rue A"
T_RueA == <<"R","u","e"," ","A">>

\* " rue a ": the same address in another case, with blanks around it
T_rue_a == <<" ","r","u","e"," ","a"," ">>

\* "Quartier B": an address that holds the word the label query starts with
T_QuartierB == <<"Q","u","a","r","t","i","e","r"," ","B">>

\* "Ovalie"
T_Ovalie == <<"O","v","a","l","i","e">>

\* "43,7" (comma as decimal separator)
T_43c7 == <<"4","3",",","7">>

\* "3.8"
T_3p8 == <<"3",".","8">>

\* "abc"
T_abc == <<"a","b","c">>

RawRow(a, l, la, lo) == [adresse |-> a, label |-> l, latitude |-> la, longitude |-> lo]

\* The rows an input table is made of.  A column that is absent reads the
\* same as an empty cell everywhere in main (row.get(...) or "").
RawRows ==
    { RawRow(T_RueA, <<>>, <<>>, <<>>),
      RawRow(T_rue_a, T_Ovalie, <<>>, <<>>),
      RawRow(<<>>, T_Ovalie, <<>>, <<>>),
      RawRow(<<>>, <<>>, <<>>, <<>>),
      RawRow(T_RueA, T_Ovalie, T_43c7, T_3p8),
      RawRow(T_RueA, <<>>, T_43c7, T_abc),
      RawRow(T_QuartierB, T_Ovalie, <<>>, <<>>) }

\* the tables of at most MaxRows rows
Tables == UNION { [1..n -> RawRows] : n \in 0..MaxRows }

\* What geolocator.geocode behind the RateLimiter returns: a place, or None
\* for no result and for any exception (swallow_exceptions=True, line 117).
GeoAnswers == {None, Some(LocNear), Some(LocFar)}

\* the environments a process may be started in
Envs == {EnvDefault, EnvNoMaxKm}

-----------------------------------------------------------------------------
(* One iteration of the loop of main (lines 128-180) *)

\* lines 130-135 for the four columns main reads: every cell stripped
CleanRow(raw) ==
    [adresse   |-> Strip(raw.adresse),
     label     |-> Strip(raw.label),
     latitude  |-> Strip(raw.latitude),
     longitude |-> Strip(raw.longitude)]

\* f"Quartier {lab}, {CITY_HINT}" (lines 148 and 158)
LabelQuery(lab, e) ==
    <<"Q","u","a","r","t","i","e","r"," ">> \o lab \o <<",", " ">> \o e.CITY_HINT

\* BuildQuery with the two sources swapped: the label query is preferred
BuildQuery_LabelFirst(row, e) ==
    IF Strip(row.label) # <<>> THEN LabelQuery(Strip(row.label), e)
    ELSE IF Strip(row.adresse) # <<>> THEN Strip(row.adresse)
    ELSE <<>>

\* lines 142-148: the address if there is one, else the label query, else ""
BuildQuery(row, e) ==
    IF Strip(row.adresse) # <<>> THEN Strip(row.adresse)
    ELSE IF Strip(row.label) # <<>> THEN LabelQuery(Strip(row.label), e)
    ELSE <<>>

\* NeedsGeocode without the test on the coordinates
NeedsGeocode_AnyRow(lat, lon, query) == query # <<>>

\* line 151: (lat is None or lon is None) and query
NeedsGeocode(lat, lon, query) == (lat = None \/ lon = None) /\ query # <<>>

\* every row is looked up, whatever the cache holds
IsMiss_Always(cached) == TRUE

\* line 154: cached is None
IsMiss(cached) == cached = None

\* the retry without the "quartier" test
ShouldRetry_AnyLabel(loc, query, row) ==
    /\ loc = None
    /\ Strip(row.label) # <<>>

\* line 156: not loc and "quartier" not in query.lower() and label non-empty
ShouldRetry(loc, query, row) ==
    /\ loc = None
    /\ ~Contains(Lower(query), <<"q","u","a","r","t","i","e","r">>)
    /\ Strip(row.label) # <<>>

\* line 160: {"lat": loc.latitude, "lon": loc.longitude}
Entry(loc) == [lat |-> loc.latitude, lon |-> loc.longitude]

\* x or None
OrNone(x) == IF x = <<>> THEN None ELSE Some(x)

\* one lookup as the service sees it, with what geocode_query made of the
\* answer (result: the place accepted, or None)
Call(i, query, e, result) ==
    [row |-> i, query |-> query, params |-> LookupParams(e), result |-> result]

\* Lines 162-166, and what the iteration leaves behind: the coordinates of
\* the row, the cache, the lookups sent, the assignments to the cache, and 1
\* when the row counts as "sans geocodage".
Emit(lat, lon, cached, c, newcalls, newstores) ==
    [lat     |-> IF cached # None THEN Some(Val(cached).lat) ELSE lat,
     lon     |-> IF cached # None THEN Some(Val(cached).lon) ELSE lon,
     cache   |-> c,
     calls   |-> newcalls,
     stores  |-> newstores,
     missing |-> IF cached # None THEN 0 ELSE 1]

\* lines 159-161: cached is the entry of loc, or stays None; cache[key] = cached
Store(lat, lon, key, cached, newcalls, i, c) ==
    Emit(lat, lon, cached, CachePut(c, key, cached), newcalls,
         <<[row |-> i, key |-> key, value |-> cached]>>)

\* lines 156-161, loc1 being the outcome of the first lookup
Retry(row, lat, lon, query, key, loc1, i, c, e, a2) ==
    IF ShouldRetry(loc1, query, row)
    THEN Store(lat, lon, key,
               IF geocode_query(e, a2) # None
               THEN Some(Entry(Val(geocode_query(e, a2)))) ELSE None,
               <<Call(i, query, e, loc1),
                 Call(i, LabelQuery(Strip(row.label), e), e, geocode_query(e, a2))>>,
               i, c)
    ELSE Store(lat, lon, key,
               IF loc1 # None THEN Some(Entry(Val(loc1))) ELSE None,
               <<Call(i, query, e, loc1)>>, i, c)

\* lines 153-166
Lookup(row, lat, lon, query, key, i, c, e, a1, a2) ==
    IF IsMiss(CacheGet(c, key))
    THEN Retry(row, lat, lon, query, key, geocode_query(e, a1), i, c, e, a2)
    ELSE Emit(lat, lon, CacheGet(c, key), c, <<>>, <<>>)

\* Lines 151-166 for row number i, with cache c, key being the key of line
\* 152, when the service answers a1 to the first lookup and a2 to the second
\* (either is ignored when the lookup is not made).
Geocode(row, lat, lon, query, key, i, c, e, a1, a2) ==
    IF NeedsGeocode(lat, lon, query)
    THEN Lookup(row, lat, lon, query, key, i, c, e, a1, a2)
    ELSE [lat |-> lat, lon |-> lon, cache |-> c, calls |-> <<>>,
          stores |-> <<>>, missing |-> 0]

\* lines 168-180: the record appended to out (the fields the coordinates
\* do not depend on are left out)
OutRecord(row, r) ==
    [adresse   |-> OrNone(row.adresse),
     label     |-> OrNone(row.label),
     latitude  |-> r.lat,
     longitude |-> r.lon]

-----------------------------------------------------------------------------
(* The processes *)

\* the cache file does not exist
NoCacheFile == [state |-> "absent", data |-> EmptyCache]

\* the cache file exists and is not JSON
BadCacheFile == [state |-> "malformed", data |-> EmptyCache]

\* the state of a process before the first line of main
Fresh(environ) ==
    /\ env = Globals(environ)
    /\ pc = "start"
    /\ rows = <<>>
    /\ cache = EmptyCache
    /\ out = <<>>
    /\ missing_geo = 0
    /\ calls = <<>>
    /\ stores = <<>>
    /\ reported = None
    /\ jsonFile = None

\* A first process is started: the input table may not exist; the cache
\* file does not exist or is not JSON (a well-formed one is written by an
\* earlier process).
Init ==
    /\ csvExists \in BOOLEAN
    /\ cacheFile \in {NoCacheFile, BadCacheFile}
    /\ laterRun = FALSE
    /\ prevEnv = None
    /\ \E e \in Envs : Fresh(e)

\* the process stops on the missing table, but after writing an empty output
Abort_WritesOutput ==
    /\ pc = "start"
    /\ ~csvExists
    /\ pc' = "aborted"
    /\ jsonFile' = Some(<<>>)
    /\ UNCHANGED <<csvExists, cacheFile, env, rows, cache, out,
                   missing_geo, calls, stores, reported, laterRun, prevEnv>>

\* lines 113-114: SystemExit when the input table does not exist
Abort ==
    /\ pc = "start"
    /\ ~csvExists
    /\ pc' = "aborted"
    /\ UNCHANGED <<csvExists, cacheFile, jsonFile, env, rows, cache, out,
                   missing_geo, calls, stores, reported, laterRun, prevEnv>>

\* line 119 with load_cache (lines 65-68): json.loads raises on a file that
\* is not JSON and nothing catches it
LoadFails ==
    /\ pc = "start"
    /\ csvExists
    /\ cacheFile.state = "malformed"
    /\ pc' = "crashed"
    /\ UNCHANGED <<csvExists, cacheFile, jsonFile, env, rows, cache, out,
                   missing_geo, calls, stores, reported, laterRun, prevEnv>>

\* lines 116-126: the cache is loaded and the rows of the table are read,
\* whatever table the file holds
Start ==
    /\ pc = "start"
    /\ csvExists
    /\ cacheFile.state # "malformed"
    /\ cache' = (IF cacheFile.state = "ok" THEN cacheFile.data ELSE EmptyCache)
    /\ \E table \in Tables :
          /\ rows' = table
          /\ pc' = IF table = <<>> THEN "write" ELSE "loop"
    /\ out' = <<>>
    /\ missing_geo' = 0
    /\ UNCHANGED <<csvExists, cacheFile, jsonFile, env, calls, stores, reported,
                   laterRun, prevEnv>>

\* an iteration that ends the process when its row stays without position
Iterate_AbortOnFailure(i, row, r) ==
    /\ cache' = r.cache
    /\ calls' = calls \o r.calls
    /\ stores' = stores \o r.stores
    /\ missing_geo' = missing_geo + r.missing
    /\ out' = Append(out, OutRecord(row, r))
    /\ pc' = IF r.missing > 0 THEN "crashed"
             ELSE IF i = Len(rows) THEN "write" ELSE "loop"

\* the effect of iteration i on the variables of main, r being the outcome
\* of lines 151-166 for the cleaned row
Iterate(i, row, r) ==
    /\ cache' = r.cache
    /\ calls' = calls \o r.calls
    /\ stores' = stores \o r.stores
    /\ missing_geo' = missing_geo + r.missing
    /\ out' = Append(out, OutRecord(row, r))
    /\ pc' = IF i = Len(rows) THEN "write" ELSE "loop"

\* lines 151-180, whatever the service answers
Answered(i, row, lat, lon, query, key) ==
    \E a1 \in GeoAnswers, a2 \in GeoAnswers :
        \E r \in {Geocode(row, lat, lon, query, key, i, cache, env, a1, a2)} :
            Iterate(i, row, r)

\* lines 137-180 on the cleaned row
Cleaned(i, row) ==
    \E lat \in {to_float(row.latitude)}, lon \in {to_float(row.longitude)},
       query \in {BuildQuery(row, env)} :
        \E key \in {CacheKey(env, query)} :
            Answered(i, row, lat, lon, query, key)

\* lines 128-180: one iteration of the loop
ProcessRow ==
    /\ pc = "loop"
    /\ Len(out) < Len(rows)
    /\ \E row \in {CleanRow(rows[Len(out) + 1])} : Cleaned(Len(out) + 1, row)
    /\ UNCHANGED <<csvExists, cacheFile, jsonFile, env, rows, reported, laterRun, prevEnv>>

\* the cache is flushed together with the output, before line 183
WriteJson_AndCache ==
    /\ pc = "write"
    /\ jsonFile' = Some(out)
    /\ cacheFile' = [state |-> "ok", data |-> cache]
    /\ pc' = "save"
    /\ UNCHANGED <<csvExists, env, rows, cache, out, missing_geo,
                   calls, stores, reported, laterRun, prevEnv>>

\* line 182: the output dataset is written
WriteJson ==
    /\ pc = "write"
    /\ jsonFile' = Some(out)
    /\ pc' = "save"
    /\ UNCHANGED <<csvExists, cacheFile, env, rows, cache, out, missing_geo,
                   calls, stores, reported, laterRun, prevEnv>>

\* line 183 with save_cache (lines 70-71)
SaveCache ==
    /\ pc = "save"
    /\ cacheFile' = [state |-> "ok", data |-> cache]
    /\ pc' = "report"
    /\ UNCHANGED <<csvExists, jsonFile, env, rows, cache, out, missing_geo,
                   calls, stores, reported, laterRun, prevEnv>>

\* line 184: the count of rows "sans geocodage" is printed
Report ==
    /\ pc = "report"
    /\ reported' = Some(missing_geo)
    /\ pc' = "done"
    /\ UNCHANGED <<csvExists, cacheFile, jsonFile, env, rows, cache, out,
                   missing_geo, calls, stores, laterRun, prevEnv>>

\* The script is run again, perhaps on another table and in another
\* environment.  jsonFile, calls and stores start over: they record what
\* the new process writes and sends.
NewRun ==
    /\ pc \in {"done", "aborted", "crashed"}
    /\ ~laterRun
    /\ laterRun' = TRUE
    /\ csvExists' \in BOOLEAN
    /\ \E environ \in Envs : env' = Globals(environ)
    /\ pc' = "start"
    /\ rows' = <<>>
    /\ cache' = EmptyCache
    /\ out' = <<>>
    /\ missing_geo' = 0
    /\ calls' = <<>>
    /\ stores' = <<>>
    /\ reported' = None
    /\ jsonFile' = None
    /\ UNCHANGED <<cacheFile, prevEnv>>

Next ==
    \/ Abort
    \/ LoadFails
    \/ Start
    \/ ProcessRow
    \/ WriteJson
    \/ SaveCache
    \/ Report
    \/ NewRun

Spec == Init /\ [][Next]_vars

-----------------------------------------------------------------------------
(* The same processes in any of the environments, on short tables, with     *)
(* interruptions; the globals of the first process are remembered.          *)

\* The longest input table read in one run of SpecWide.
MaxWideRows == 1

WideEnvs == {EnvDefault, EnvNoMaxKm, EnvParis, EnvSpain, EnvBadBox}

WideRows ==
    { RawRow(<<>>, T_Ovalie, <<>>, <<>>),
      RawRow(T_rue_a, T_Ovalie, <<>>, <<>>) }

WideTables == UNION { [1..n -> WideRows] : n \in 0..MaxWideRows }

InitWide ==
    /\ csvExists \in BOOLEAN
    /\ cacheFile \in {NoCacheFile, BadCacheFile}
    /\ laterRun = FALSE
    /\ prevEnv = None
    /\ \E e \in WideEnvs : Fresh(e)

\* Start on the short tables
StartWide ==
    /\ pc = "start"
    /\ csvExists
    /\ cacheFile.state # "malformed"
    /\ cache' = (IF cacheFile.state = "ok" THEN cacheFile.data ELSE EmptyCache)
    /\ \E table \in WideTables :
          /\ rows' = table
          /\ pc' = IF table = <<>> THEN "write" ELSE "loop"
    /\ out' = <<>>
    /\ missing_geo' = 0
    /\ UNCHANGED <<csvExists, cacheFile, jsonFile, env, calls, stores, reported,
                   laterRun, prevEnv>>

\* The process is stopped from outside (Ctrl-C, kill) between two lines of
\* main: nothing more is executed, no file is written.
Interrupt ==
    /\ pc \in {"start", "loop", "write", "save", "report"}
    /\ pc' = "interrupted"
    /\ UNCHANGED <<csvExists, cacheFile, jsonFile, env, rows, cache, out,
                   missing_geo, calls, stores, reported, laterRun, prevEnv>>

\* NewRun in any of the environments, also after an interruption; the
\* globals of the process that ended are remembered
NewRunWide ==
    /\ pc \in {"done", "aborted", "crashed", "interrupted"}
    /\ ~laterRun
    /\ laterRun' = TRUE
    /\ prevEnv' = Some(env)
    /\ csvExists' \in BOOLEAN
    /\ \E environ \in WideEnvs : env' = Globals(environ)
    /\ pc' = "start"
    /\ rows' = <<>>
    /\ cache' = EmptyCache
    /\ out' = <<>>
    /\ missing_geo' = 0
    /\ calls' = <<>>
    /\ stores' = <<>>
    /\ reported' = None
    /\ jsonFile' = None
    /\ UNCHANGED cacheFile

NextWide ==
    \/ Abort
    \/ LoadFails
    \/ StartWide
    \/ ProcessRow
    \/ WriteJson
    \/ SaveCache
    \/ Report
    \/ Interrupt
    \/ NewRunWide

SpecWide == InitWide /\ [][NextWide]_vars

\* One process under the default configuration on tables of the rows above,
\* left to run: no interruption and no later process.
BatchTables == UNION { [1..n -> WideRows] : n \in 0..MaxRows }

\* the cache file an earlier process left after it resolved "rue a" to the
\* near place under the default configuration
SavedCacheFile ==
    [state |-> "ok",
     data  |-> CachePut(EmptyCache,
                        CacheKey(Globals(EnvDefault), <<"r","u","e"," ","a">>),
                        Some(Entry(LocNear)))]

InitBatch ==
    /\ csvExists \in BOOLEAN
    /\ cacheFile \in {NoCacheFile, BadCacheFile, SavedCacheFile}
    /\ laterRun = FALSE
    /\ prevEnv = None
    /\ Fresh(EnvDefault)

\* Start on these tables
StartBatch ==
    /\ pc = "start"
    /\ csvExists
    /\ cacheFile.state # "malformed"
    /\ cache' = (IF cacheFile.state = "ok" THEN cacheFile.data ELSE EmptyCache)
    /\ \E table \in BatchTables :
          /\ rows' = table
          /\ pc' = IF table = <<>> THEN "write" ELSE "loop"
    /\ out' = <<>>
    /\ missing_geo' = 0
    /\ UNCHANGED <<csvExists, cacheFile, jsonFile, env, calls, stores, reported,
                   laterRun, prevEnv>>

NextBatch ==
    \/ Abort
    \/ LoadFails
    \/ StartBatch
    \/ ProcessRow
    \/ WriteJson
    \/ SaveCache
    \/ Report

\* The statements of main follow one another without waiting for anything
\* but the answer of the rate-limited call, which comes or times out (the
\* timeout of line 116): a process that can take its next step takes it.
FairBatch == InitBatch /\ [][NextBatch]_vars /\ WF_vars(NextBatch)

-----------------------------------------------------------------------------
(* What main computes for a row of the table, as the properties below name it *)

\* lines 137-138 on a raw row
RowLat(raw) == to_float(Strip(raw.latitude))

RowLon(raw) == to_float(Strip(raw.longitude))

\* lines 142-148 on a raw row
RowQuery(raw) == BuildQuery(CleanRow(raw), env)

\* line 151 on a raw row
RowNeeds(raw) == NeedsGeocode(RowLat(raw), RowLon(raw), RowQuery(raw))

\* line 152 on a raw row
RowKey(raw) == CacheKey(env, RowQuery(raw))

\* the row the next iteration of the loop works on
CurRaw == rows[Len(out) + 1]

\* the indices of the lookups made for row k
CallsOf(k) == {n \in 1..Len(calls) : calls[n].row = k}

\* the distance check of lines 105-107 is in force
CheckActive == env.CENTER_LAT # None /\ env.CENTER_LON # None /\ env.MAX_KM > 0

\* the rows of this run that were given coordinates found in the cache file:
\* no lookup was made for them and nothing was stored under their key before
FileHits ==
    {k \in 1..Len(out) :
        /\ RowNeeds(rows[k])
        /\ CallsOf(k) = {}
        /\ out[k].latitude # None
        /\ \A n \in 1..Len(stores) : stores[n].key # RowKey(rows[k])}

\* the bounding box and the country filter of two processes are the same
SameRegion(e1, e2) ==
    /\ e1.VIEWBOX_PARAM = e2.VIEWBOX_PARAM
    /\ e1.COUNTRY_CODES = e2.COUNTRY_CODES

-----------------------------------------------------------------------------
(* Properties *)

\* C1 -- cache determinism: a row whose key already has an entry in the cache
\* (positive or negative, written earlier in this run or loaded from the file
\* an earlier run saved) is resolved without any lookup, and is given the
\* cached value: the cached coordinates, or none when the entry is negative.
C1_CacheDeterminism ==
    [][ ( /\ pc = "loop"
          /\ Len(out') = Len(out) + 1
          /\ RowNeeds(CurRaw)
          /\ RowKey(CurRaw) \in DOMAIN cache )
        => ( /\ calls' = calls
             /\ out'[Len(out')].latitude =
                   (IF cache[RowKey(CurRaw)] # None
                    THEN Some(Val(cache[RowKey(CurRaw)]).lat) ELSE RowLat(CurRaw))
             /\ out'[Len(out')].longitude =
                   (IF cache[RowKey(CurRaw)] # None
                    THEN Some(Val(cache[RowKey(CurRaw)]).lon) ELSE RowLon(CurRaw)) )
      ]_vars

\* C2 -- plausibility filtering: with a valid bounding box and MAX_KM > 0, no
\* record whose coordinates the resolver filled in (from a lookup or from the
\* cache) lies further than MAX_KM from the centre of the box.
C2_NoFarCoordinate ==
    CheckActive =>
        \A k \in 1..Len(out) :
            ( /\ RowNeeds(rows[k])
              /\ out[k].latitude # None
              /\ out[k].longitude # None )
            => haversine_km(Val(env.CENTER_LAT), Val(env.CENTER_LON),
                            Val(out[k].latitude), Val(out[k].longitude)) <= env.MAX_KM

\* C3 -- within one run no query text is sent to the service twice.
C3_OneLookupPerQuery ==
    \A a \in 1..Len(calls), b \in 1..Len(calls) :
        a # b => calls[a].query # calls[b].query

\* C4 -- every candidate query that was looked up has its own cache entry,
\* stored under its own key: positive with the accepted place, negative when
\* the lookup was rejected or returned nothing.
C4_EntryPerCandidate ==
    \A n \in 1..Len(calls) :
        \E m \in 1..Len(stores) :
            /\ stores[m].row = calls[n].row
            /\ stores[m].key = CacheKey(env, calls[n].query)
            /\ stores[m].value =
                  (IF calls[n].result # None
                   THEN Some(Entry(Val(calls[n].result))) ELSE None)

\* C5 -- idempotence: for a row that already has latitude and longitude no
\* lookup is sent, nothing is assigned in the cache, and the record carries
\* exactly the coordinates of the row.
C5_Idempotence ==
    \A k \in 1..Len(out) :
        (RowLat(rows[k]) # None /\ RowLon(rows[k]) # None)
        => /\ CallsOf(k) = {}
           /\ \A m \in 1..Len(stores) : stores[m].row # k
           /\ out[k].latitude = RowLat(rows[k])
           /\ out[k].longitude = RowLon(rows[k])

\* C5 witness: the second row has both coordinates, its address has a
\* positive entry in the cache with other coordinates, and it was emitted.
C5_Witness ==
    /\ Len(out) = 2
    /\ RowLat(rows[2]) = Some(43700)
    /\ RowLon(rows[2]) = Some(3800)
    /\ CacheGet(cache, CacheKey(env, Strip(rows[2].adresse))) = Some(Entry(LocNear))
    /\ calls # <<>>

\* C6 -- in every record latitude and longitude are both null or both set.
C6_BothOrNeither ==
    \A k \in 1..Len(out) :
        (out[k].latitude = None) <=> (out[k].longitude = None)

\* C7 -- a coordinate present in the input row is never replaced: the record
\* carries the value of the row for that field.
C7_NeverOverwritten ==
    \A k \in 1..Len(out) :
        /\ RowLat(rows[k]) # None => out[k].latitude = RowLat(rows[k])
        /\ RowLon(rows[k]) # None => out[k].longitude = RowLon(rows[k])

\* C8 -- every record emitted without coordinates is counted in the count of
\* unresolved rows the run reports.
C8_UnresolvedCounted ==
    reported # None =>
        Val(reported) >=
            Cardinality({k \in 1..Len(out) :
                            out[k].latitude = None /\ out[k].longitude = None})

\* "Quartier <label>, Montpellier, France"
QuartierText(label) ==
    <<"Q","u","a","r","t","i","e","r"," ">> \o label \o
    <<","," ","M","o","n","t","p","e","l","l","i","e","r",","," ","F","r","a","n","c","e">>

\* C9 -- automatic fallback: when the lookup of the address of a row that
\* also has a label yields no accepted place, the next lookup is the label
\* query of that row.
C9_FallbackAfterAddress ==
    \A n \in 1..Len(calls) :
        ( /\ Strip(rows[calls[n].row].adresse) # <<>>
          /\ Strip(rows[calls[n].row].label) # <<>>
          /\ calls[n].query = Strip(rows[calls[n].row].adresse)
          /\ calls[n].result = None )
        => /\ n < Len(calls)
           /\ calls[n + 1].row = calls[n].row
           /\ calls[n + 1].query = QuartierText(Strip(rows[calls[n].row].label))

\* "Quartier Ovalie, Montpellier, France"
T_QuartierOvalie ==
    <<"Q","u","a","r","t","i","e","r"," ","O","v","a","l","i","e",","," ","M","o","n","t","p","e","l","l","i","e","r",","," ","F","r","a","n","c","e">>

\* the first lookup made for row k
FirstCallOf(k) == calls[CHOOSE n \in CallsOf(k) : \A m \in CallsOf(k) : n <= m]

\* C10 -- query priority: the first lookup made for a row is the trimmed
\* address, verbatim, when the address is not empty, and else the label
\* query; for label "Ovalie" it is "Quartier Ovalie, Montpellier, France".
C10_QueryPriority ==
    \A k \in 1..Len(out) :
        CallsOf(k) # {} =>
            /\ Strip(rows[k].adresse) # <<>>
                  => FirstCallOf(k).query = Strip(rows[k].adresse)
            /\ (Strip(rows[k].adresse) = <<>> /\ Strip(rows[k].label) # <<>>)
                  => FirstCallOf(k).query = QuartierText(Strip(rows[k].label))
            /\ (Strip(rows[k].adresse) = <<>> /\ Strip(rows[k].label) = T_Ovalie)
                  => FirstCallOf(k).query = T_QuartierOvalie

\* C10 witness: one row with address " rue a " and a label was looked up by
\* "rue a" first and by its label query next, and one row without address
\* was looked up by "Quartier Ovalie, Montpellier, France".
C10_Witness ==
    /\ \E n \in 1..Len(calls) :
          /\ rows[calls[n].row].adresse = T_rue_a
          /\ calls[n].query = <<"r","u","e"," ","a">>
          /\ n < Len(calls)
          /\ calls[n + 1].row = calls[n].row
          /\ calls[n + 1].query = T_QuartierOvalie
    /\ \E k \in 1..Len(out) :
          /\ rows[k].adresse = <<>>
          /\ CallsOf(k) # {}
          /\ FirstCallOf(k).query = T_QuartierOvalie

\* C11 -- region-key isolation: the query of a row has, under every
\* configuration whose bounding box or country filter differs from the current
\* one, a key other than its current key; and a row is given coordinates found
\* in the cache file only when the process that wrote the file had the same
\* bounding box and the same country filter.
C11_RegionKeyIsolation ==
    /\ \A k \in 1..Len(rows) : \A e \in WideEnvs :
          ~SameRegion(Globals(e), env)
             => CacheKey(Globals(e), RowQuery(rows[k])) # RowKey(rows[k])
    /\ prevEnv # None
          => \A k \in FileHits : SameRegion(Val(prevEnv), env)

\* C11 witness: the earlier process, with another bounding box, left a
\* position for the query of a row in the file; this process did not use it
\* and looked the row up.
C11_Witness ==
    /\ prevEnv # None
    /\ Val(prevEnv).VIEWBOX_PARAM # env.VIEWBOX_PARAM
    /\ \E k \in 1..Len(out) :
          /\ RowNeeds(rows[k])
          /\ CacheKey(Val(prevEnv), RowQuery(rows[k])) \in DOMAIN cache
          /\ cache[CacheKey(Val(prevEnv), RowQuery(rows[k]))] # None
          /\ CallsOf(k) # {}

\* C17 -- the key follows every parameter of the region constraint: a row is
\* given coordinates found in the cache file only when the process that wrote
\* the file had the same bounding box, the same country filter and the same
\* maximum distance.
C17_KeyFollowsRegion ==
    prevEnv # None
       => \A k \in FileHits :
             /\ SameRegion(Val(prevEnv), env)
             /\ Val(prevEnv).MAX_KM = env.MAX_KM

\* C12 -- a malformed cache file is never fatal: a process that finds the
\* input table and a cache file that is not JSON does not end on an error.
C12_MalformedCacheNotFatal ==
    (csvExists /\ cacheFile.state = "malformed") => pc # "crashed"

\* C13 -- the output written holds one record per row of the table, in the
\* order of the table, and a record that lacks a coordinate (its row stayed
\* unresolved) has neither latitude nor longitude.
C13_OneRecordPerRow ==
    jsonFile # None =>
        /\ Len(Val(jsonFile)) = Len(rows)
        /\ \A k \in 1..Len(rows) :
              /\ Val(jsonFile)[k].adresse = OrNone(Strip(rows[k].adresse))
              /\ Val(jsonFile)[k].label = OrNone(Strip(rows[k].label))
              /\ (Val(jsonFile)[k].latitude = None \/ Val(jsonFile)[k].longitude = None)
                    => /\ Val(jsonFile)[k].latitude = None
                       /\ Val(jsonFile)[k].longitude = None

\* C14 -- batch completion: a process that found the input table and could
\* load the cache goes, whatever the lookups answer, through every row and
\* ends having written one record per row, flushed the cache and reported
\* the count of unresolved rows.
C14_BatchCompletes ==
    (pc = "start" /\ csvExists /\ cacheFile.state # "malformed")
       ~> ( /\ pc = "done"
            /\ jsonFile # None
            /\ Len(Val(jsonFile)) = Len(rows)
            /\ cacheFile = [state |-> "ok", data |-> cache]
            /\ reported = Some(missing_geo) )

\* C14 witness: the lookup of the first of two rows failed, the second row
\* was looked up after it, and the process ended with its report.
C14_Witness ==
    /\ pc = "done"
    /\ Len(rows) = 2
    /\ \E n \in CallsOf(1) : calls[n].result = None
    /\ out[1].latitude = None
    /\ CallsOf(2) # {}
    /\ reported # None
    /\ Val(reported) > 0

\* C15 -- fatal precondition: a process that does not find the input table
\* has issued no lookup, loaded no cache and written no output, and its only
\* step is to stop, leaving the cache file, the output and the log of lookups
\* as they are.
C15_FatalPrecondition ==
    [][ (pc = "start" /\ ~csvExists)
        => ( /\ calls = <<>>
             /\ cache = EmptyCache
             /\ jsonFile = None
             /\ pc' = "aborted"
             /\ calls' = calls
             /\ cache' = cache
             /\ stores' = stores
             /\ jsonFile' = jsonFile
             /\ cacheFile' = cacheFile )
      ]_vars

\* C15 witness: a process stopped on the missing table while the cache file
\* of an earlier process, with entries in it, was on disk.
C15_Witness ==
    /\ pc = "aborted"
    /\ laterRun
    /\ cacheFile.state = "ok"
    /\ DOMAIN cacheFile.data # {}
    /\ jsonFile = None
    /\ calls = <<>>

\* C16, as stated -- with an invalid bounding box every lookup is sent
\* without box, without bounded flag and without country filter, and every
\* answer of the service is accepted whatever its distance.
C16_RegionDisabled ==
    env.VIEWBOX_PARAM = None =>
        /\ \A n \in 1..Len(calls) :
              /\ calls[n].params.viewbox = None
              /\ ~calls[n].params.bounded
              /\ calls[n].params.country_codes = <<>>
        /\ \A a \in GeoAnswers : geocode_query(env, a) = a

\* C16, amended -- with an invalid bounding box every lookup is sent without
\* box and without bounded flag but still with the configured country filter,
\* every answer of the service is accepted whatever its distance, and the
\* process fails on nothing but a cache file that is not JSON.
C16_BoxDisabled ==
    env.VIEWBOX_PARAM = None =>
        /\ pc = "crashed" => cacheFile.state = "malformed"
        /\ \A n \in 1..Len(calls) :
              /\ calls[n].params.viewbox = None
              /\ ~calls[n].params.bounded
              /\ calls[n].params.country_codes = env.COUNTRY_CODES
        /\ \A a \in GeoAnswers : geocode_query(env, a) = a

\* C16 witness: under the invalid box a process ran to its end and gave a row
\* the far place the service answered.
C16_Witness ==
    /\ env.VIEWBOX_STR = T_ViewboxBad
    /\ env.VIEWBOX_PARAM = None
    /\ env.MAX_KM > 0
    /\ pc = "done"
    /\ calls # <<>>
    /\ \E k \in 1..Len(out) : out[k].latitude = Some(LocFar.latitude)

\* C18 -- persistence ordering: the cache file changes only in the step that
\* follows the writing of the output, once every row has its record, and it
\* then holds the cache of the process; that step is taken at most once, so
\* an interrupted process has left the file as it found it.
C18_PersistenceOrdering ==
    [][ cacheFile' # cacheFile
        => ( /\ pc = "save"
             /\ pc' = "report"
             /\ Len(out) = Len(rows)
             /\ jsonFile = Some(out)
             /\ cacheFile' = [state |-> "ok", data |-> cache] )
      ]_vars

\* C18 witness: a process was interrupted after it had written its output
\* and before the flush: what it stored is not in the file an earlier
\* process wrote.
C18_Witness ==
    /\ pc = "interrupted"
    /\ laterRun
    /\ jsonFile # None
    /\ cacheFile.state = "ok"
    /\ \E n \in 1..Len(stores) : stores[n].key \notin DOMAIN cacheFile.data

\* every key of c that maps to a position maps to the same position in d
PositiveKept(c, d) ==
    \A key \in DOMAIN c :
        c[key] # None => (key \in DOMAIN d /\ d[key] = c[key])

\* the loop is at a row without coordinates whose key maps to a position
PositiveHit ==
    /\ pc = "loop"
    /\ \E key \in DOMAIN cache : cache[key] # None
    /\ RowNeeds(CurRaw)
    /\ RowKey(CurRaw) \in DOMAIN cache
    /\ cache[RowKey(CurRaw)] # None

\* C19 -- positive entries are stable: in a step of a process every key that
\* maps to a position keeps that position, and a row without coordinates
\* whose key maps to a position is given exactly that position.
C19_PositiveStable ==
    [][ ( pc \in {"start", "loop", "write", "save", "report"} )
        => ( /\ PositiveKept(cache, cache')
             /\ PositiveHit
                   => ( /\ Len(out') = Len(out) + 1
                        /\ out'[Len(out')].latitude =
                              Some(Val(cache[RowKey(CurRaw)]).lat)
                        /\ out'[Len(out')].longitude =
                              Some(Val(cache[RowKey(CurRaw)]).lon) ) )
      ]_vars

\* C19 witness: the first row was given the position the cache file held for
\* its key; the second row has the key of the first and was given the same
\* position without lookup, and the cache still holds it.
C19_Witness ==
    /\ Len(out) = 2
    /\ cacheFile = SavedCacheFile
    /\ cache = cacheFile.data
    /\ RowNeeds(rows[1])
    /\ CallsOf(1) = {}
    /\ out[1].latitude = Some(LocNear.latitude)
    /\ out[2] = out[1]
    /\ RowNeeds(rows[2])
    /\ RowKey(rows[2]) = RowKey(rows[1])
    /\ CallsOf(2) = {}
    /\ cache[RowKey(rows[2])] # None
    /\ out[2].latitude = Some(Val(cache[RowKey(rows[2])]).lat)

\* C20 -- bounded retry: a row has at most two lookups, the second with its
\* label query; none when it has neither address nor label or has both
\* coordinates; at most one when its first query is already the label query.
C20_BoundedRetry ==
    \A k \in 1..Len(out) :
        /\ Cardinality(CallsOf(k)) <= 2
        /\ Cardinality(CallsOf(k)) = 2
              => \E n \in CallsOf(k) :
                    /\ n + 1 \in CallsOf(k)
                    /\ calls[n].result = None
                    /\ calls[n + 1].query = QuartierText(Strip(rows[k].label))
        /\ (Strip(rows[k].adresse) = <<>> /\ Strip(rows[k].label) = <<>>)
              => CallsOf(k) = {}
        /\ (RowLat(rows[k]) # None /\ RowLon(rows[k]) # None)
              => CallsOf(k) = {}
        /\ RowQuery(rows[k]) = QuartierText(Strip(rows[k].label))
              => Cardinality(CallsOf(k)) <= 1

\* C20 witness: the first row was looked up by its address and then by its
\* label query; the second, which has only the label, was looked up once,
\* without success.
C20_Witness ==
    /\ Len(out) = 2
    /\ Cardinality(CallsOf(1)) = 2
    /\ Strip(rows[2].adresse) = <<>>
    /\ Cardinality(CallsOf(2)) = 1
    /\ \A n \in CallsOf(2) : calls[n].result = None

====
